---- MODULE Spec2Model ----
(***************************************************************************)
(* Model of src/shelly-ble-rpc.js: one exchange of sendRpcAndReceive over  *)
(* a BLE peer.  Every state of pc is a suspension point of the async       *)
(* function (an await whose callback or timer is pending); every action is *)
(* the code that runs from one callback to the next await.  The peer (the  *)
(* results of connect, discover, read, write, subscribe, and the           *)
(* notifications it pushes) is the nondeterministic environment.           *)
(***************************************************************************)
EXTENDS Integers, Sequences, FiniteSets, TLC

\* ---------------------------------------------------------------- bounds
\* largest length value the peer reports on RX control
MaxLen == 2
\* total number of bytes the peer can serve on the data channel in the receive phase
MaxData == 2
\* largest buffer one read of the data channel returns
MaxChunk == 2
\* length in bytes of the serialized request (two chunks: 20 + 1)
ReqLen == 21
\* consecutiveEmpty is saturated here: Min(200 + 50k, 500) is constant from k = 6 on
MaxEmpty == 6
\* length in bytes of a long serialized request (its length needs two bytes)
BigReqLen == 260
\* exchanges one session starts
MaxExchanges == 2

\* ------------------------------------------------------ program constants
MTU_CHUNK == 20
PrimaryPolls == 30
RetryPolls == 20
FlushDeadlineMs == 1000
KnownLengthMs == 20000
BestEffortMs == 5000
ReadErrorSleepMs == 250
EmptySleepBaseMs == 200
EmptySleepStepMs == 50
EmptySleepCapMs == 500

\* lengths of the serialized request that the method and params of a call can
\* give: a short one and a long one
ReqLens == {ReqLen, BigReqLen}

\* ------------------------------------------------------------ environment
\* time a read in flushChannels takes before it calls back (ms)
ReadMs == {0, 1000}
\* response bytes the peer can serve: "1", " " and a byte that is not valid UTF-8
Bytes == {49, 32, 255}
\* what a read of RX control / a notification delivers: an error, a buffer
\* shorter than 4 bytes (or none), or a 4-byte big-endian length
Lens == 0..MaxLen
Reply(k, n) == [kind |-> k, len |-> n]
RxReplies == {Reply("err", 0), Reply("short", 0)} \cup {Reply("len", n) : n \in Lens}
NotifyBufs == {Reply("short", 0)} \cup {Reply("len", n) : n \in Lens}
ServiceSets == {{}, {"other"}, {"shelly"}, {"shelly", "other"}}
UUID_DATA == "data"
UUID_TXCTL == "txctl"
UUID_RXCTL == "rxctl"
CharSets == SUBSET {UUID_DATA, UUID_TXCTL, UUID_RXCTL, "other"}
TARGET_SERVICE == "shelly"

Min(a, b) == IF a < b THEN a ELSE b

\* non-empty buffers of at most n bytes
RECURSIVE SeqsUpTo(_)
SeqsUpTo(n) ==
  IF n = 0 THEN {<<>>}
  ELSE LET S == SeqsUpTo(n - 1)
       IN S \cup {Append(s, b) : s \in {t \in S : Len(t) = n - 1}, b \in Bytes}
Chunks(n) == SeqsUpTo(n) \ {<<>>}
\* what a read of the data channel delivers: an error, no bytes, or a buffer
DataReply(k, b) == [kind |-> k, bytes |-> b]
DataReplies ==
  {DataReply("err", <<>>), DataReply("empty", <<>>)}
    \cup {DataReply("chunk", c) : c \in Chunks(MaxChunk)}

\* ------------------------------------------------------------ pure helpers
\* Buffer.writeUInt32BE(n, 0) on a 4-byte buffer
WriteUInt32BE(n) ==
  << (n \div 16777216) % 256, (n \div 65536) % 256, (n \div 256) % 256, n % 256 >>

\* a slice that runs to the end of the buffer
SliceToEnd(buf, offset) == << offset, Len(buf) >>

\* Buffer.slice(offset, offset + MTU_CHUNK): a view of buf, kept as the pair of
\* its first offset and the offset after its last byte
Slice(buf, offset) == << offset, Min(offset + MTU_CHUNK, Len(buf)) >>
\* the bytes a slice holds
SliceBytes(buf, slice) == SubSeq(buf, slice[1] + 1, slice[2])

\* Buffer.toString('utf8'): an invalid byte decodes to U+FFFD
Utf8Char(b) == IF b = 49 THEN "1" ELSE IF b = 32 THEN " " ELSE "U+FFFD"
ToStringUtf8(buf) == [k \in 1..Len(buf) |-> Utf8Char(buf[k])]

\* String.prototype.trim
RECURSIVE TrimLeft(_)
TrimLeft(t) == IF t # <<>> /\ Head(t) = " " THEN TrimLeft(Tail(t)) ELSE t
RECURSIVE TrimRight(_)
TrimRight(t) ==
  IF t # <<>> /\ t[Len(t)] = " " THEN TrimRight(SubSeq(t, 1, Len(t) - 1)) ELSE t
Trim(t) == TrimRight(TrimLeft(t))

\* JSON.parse over the alphabet above: optional whitespace, a number made of
\* digits, optional whitespace; anything else is a SyntaxError
RECURSIVE Digits(_)
Digits(t) == IF t = <<>> THEN 0 ELSE 10 * Digits(SubSeq(t, 1, Len(t) - 1)) + 1
JsonParse(text) ==
  LET t == Trim(text)
  IN IF t # <<>> /\ \A k \in 1..Len(t) : t[k] = "1"
     THEN [ok |-> TRUE, value |-> Digits(t)]
     ELSE [ok |-> FALSE, value |-> 0]

\* findCharsByUuid(characteristics, wanted): the wanted uuids that are present
findCharsByUuid(characteristics, uuids) == {u \in characteristics : u \in uuids}

\* --------------------------------------------------------------- outcomes
NoOutcome == [kind |-> "none", error |-> "", value |-> 0, att |-> 0]
Returned(v) == [kind |-> "return", error |-> "", value |-> v, att |-> 0]
Thrown(e, a) == [kind |-> "throw", error |-> e, value |-> 0, att |-> a]

NoSig == [att |-> 0, clean |-> TRUE]

VARIABLES
  pc,               \* the await the exchange is suspended at
  connected,        \* the peripheral is connected
  connects,         \* successful connects (history)
  disconnects,      \* calls of peripheral.disconnect() (history)
  shellyService,    \* "pending" before services.find, then "found" or "undefined"
  charMap,          \* {"pending"} before findCharsByUuid, then the wanted uuids found
  ops,              \* kinds of characteristic operations requested so far (history)
  flushLen,         \* len in flushChannels (0 when not assigned)
  drained,          \* drained in flushChannels
  elapsed,          \* Date.now() minus the start of the current timed phase
  subscribed,       \* the 'data' handler is registered on RX control
  unsubscribes,     \* calls of unsubscribeRxNotify (history)
  expectedLength,
  received,
  offset,           \* offset / off of the chunk loop (0 outside the loops)
  attempt,          \* 0 before any transmission, 1 primary, 2 retry
  wire,             \* every write requested, in order (history)
  i,                \* counter of the polling loop (0 outside the loops)
  bestEffort,
  consecutiveEmpty,
  outcome,          \* what sendRpcAndReceive returned or threw
  sig,              \* when the peer first reported a positive length (history)
  activated,        \* expectedLength when the data read loop was entered (history)
  requestLength,    \* requestBytes.length for the method and params of the call
  mainPc,           \* the await main is suspended at
  exchanges         \* calls of sendRpcAndReceive made by main so far (history)

vars == << pc, connected, connects, disconnects, shellyService, charMap, ops, flushLen, drained, elapsed,
           subscribed, unsubscribes, expectedLength, received, offset, attempt,
           wire, i, bestEffort, consecutiveEmpty, outcome, sig, activated,
           requestLength, mainPc, exchanges >>

\* groups used in UNCHANGED
connVars == << connected, connects, disconnects >>
gattVars == << shellyService, charMap >>
flushVars == << flushLen, drained >>
txVars == << offset, attempt, wire >>
rxVars == << expectedLength, received, i, sig >>
dataVars == << elapsed, bestEffort, consecutiveEmpty, activated >>
subVars == << subscribed, unsubscribes >>
\* what main holds while a call of sendRpcAndReceive runs
callVars == << requestLength, mainPc, exchanges >>

\* the bytes of JSON.stringify(requestObject): opaque content, one distinct
\* token per position
RequestBytes == [k \in 1..requestLength |-> k]

\* sendRpcAndReceive has been called and has requested the connection
Called ==
  /\ pc = "connect"
  /\ connected = FALSE
  /\ connects = 0
  /\ disconnects = 0
  /\ shellyService = "pending"
  /\ charMap = {"pending"}
  /\ ops = {}
  /\ flushLen = 0
  /\ drained = 0
  /\ elapsed = 0
  /\ subscribed = FALSE
  /\ unsubscribes = 0
  /\ expectedLength = 0
  /\ received = <<>>
  /\ offset = 0
  /\ attempt = 0
  /\ wire = <<>>
  /\ i = 0
  /\ bestEffort = FALSE
  /\ consecutiveEmpty = 0
  /\ outcome = NoOutcome
  /\ sig = NoSig
  /\ activated = 0

\* main was given a method: its loop has made the first call and awaits it
Init ==
  /\ Called
  /\ requestLength = ReqLen
  /\ mainPc = "awaitExchange"
  /\ exchanges = 1

\* ------------------------------------------------------- leaving the try
\* a disconnect on the return path only
FinallyOnReturnOnly(o) ==
  /\ outcome' = o
  /\ connected' = (o.kind # "return" /\ connected)
  /\ disconnects' = disconnects + (IF o.kind = "return" THEN 1 ELSE 0)
  /\ connects' = connects
  /\ pc' = "done"

\* finally { peripheral.disconnect() }, then the result or error reaches the caller
Finally(o) ==
  /\ outcome' = o
  /\ connected' = FALSE
  /\ disconnects' = disconnects + 1
  /\ connects' = connects
  /\ pc' = "done"

\* ------------------------------------------------------------ connection
\* peripheral.connect callback (outside the try: an error is not followed by finally)
ConnectCb ==
  /\ pc = "connect"
  /\ \E err \in BOOLEAN :
       IF err
       THEN /\ outcome' = Thrown("ConnectFailed", 0)
            /\ pc' = "done"
            /\ UNCHANGED connVars
       ELSE /\ connected' = TRUE
            /\ connects' = connects + 1
            /\ pc' = "settle"
            /\ UNCHANGED << disconnects, outcome >>
  /\ UNCHANGED << ops, gattVars, flushVars, txVars, rxVars, dataVars, subVars >>
  /\ UNCHANGED callVars

\* sleep(500) is over: discoverServices is requested
SettleDone ==
  /\ pc = "settle"
  /\ pc' = "discoverServices"
  /\ UNCHANGED << connVars, ops, gattVars, flushVars, txVars, rxVars, dataVars, subVars, outcome >>
  /\ UNCHANGED callVars

\* discoverServices callback, then services.find
DiscoverServicesCb ==
  /\ pc = "discoverServices"
  /\ \E err \in BOOLEAN, services \in ServiceSets :
       IF err
       THEN /\ Finally(Thrown("DiscoverFailed", 0))
            /\ UNCHANGED shellyService
       ELSE IF TARGET_SERVICE \notin services
            THEN /\ shellyService' = "undefined"
                 /\ Finally(Thrown("ServiceNotFound", 0))
            ELSE /\ shellyService' = "found"
                 /\ pc' = "discoverCharacteristics"
                 /\ UNCHANGED << connVars, outcome >>
  /\ UNCHANGED << ops, charMap, flushVars, txVars, rxVars, dataVars, subVars >>
  /\ UNCHANGED callVars

\* const wanted = [UUID_DATA, UUID_TXCTL, UUID_RXCTL]
wanted == {UUID_DATA, UUID_TXCTL, UUID_RXCTL}

\* a check that forgets RX control
CharacteristicMissingButRx(map) == UUID_DATA \notin map \/ UUID_TXCTL \notin map

\* if (!dataChar || !txCtlChar || !rxCtlChar)
CharacteristicMissing(map) ==
  UUID_DATA \notin map \/ UUID_TXCTL \notin map \/ UUID_RXCTL \notin map

\* discoverCharacteristics callback, findCharsByUuid, the check for the three
\* characteristics, and the first read of flushChannels
DiscoverCharacteristicsCb ==
  /\ pc = "discoverCharacteristics"
  /\ \E err \in BOOLEAN, characteristics \in CharSets :
       IF err
       THEN /\ Finally(Thrown("DiscoverFailed", 0))
            /\ UNCHANGED << ops, charMap >>
       ELSE /\ charMap' = findCharsByUuid(characteristics, wanted)
            /\ IF CharacteristicMissing(findCharsByUuid(characteristics, wanted))
               THEN /\ Finally(Thrown("CharacteristicsMissing", 0))
                    /\ ops' = ops
               ELSE /\ pc' = "flushRx"
                    /\ ops' = ops \cup {"read"}
                    /\ UNCHANGED << connVars, outcome >>
  /\ UNCHANGED << shellyService, flushVars, txVars, rxVars, dataVars, subVars >>
  /\ UNCHANGED callVars

\* ---------------------------------------------------------- flushChannels
\* an error met in flushChannels reaches the caller
FlushRethrows ==
  /\ Finally(Thrown("ReadFailed", 0))
  /\ UNCHANGED << elapsed, ops, expectedLength, received >>

\* a flush that hands over to the chunk writes: no subscription, no length write
FlushReturnsToTransmit ==
  /\ pc' = "txSettle"
  /\ UNCHANGED << connVars, outcome, ops >>
  /\ elapsed' = 0
  /\ expectedLength' = 0
  /\ received' = <<>>

\* flushChannels is over (its catch swallows every error); back in
\* sendRpcAndReceive: expectedLength and received are initialised and
\* subscribeNotifications requests the subscription (len and drained of the
\* call are kept until that request is answered)
FlushReturns ==
  /\ pc' = "subscribe"
  /\ UNCHANGED << connVars, outcome >>
  /\ elapsed' = 0
  /\ ops' = ops \cup {"subscribe"}
  /\ expectedLength' = 0
  /\ received' = <<>>

\* a test that takes a 4-byte buffer holding 0 for a pending frame
FramePendingAnyLength(reply) == reply.kind = "len"

\* lines 184-186: lenBuf has 4 bytes or more and the length it holds is > 0
FramePending(reply) == reply.kind = "len" /\ reply.len > 0

\* callback of the read of RX control in flushChannels
FlushRxCb ==
  /\ pc = "flushRx"
  /\ \E reply \in RxReplies :
       IF FramePending(reply)
       THEN \* drained = 0, deadline = now + 1000, first test of the while, read of data
            /\ flushLen' = reply.len
            /\ drained' = 0
            /\ elapsed' = 0
            /\ pc' = "flushData"
            /\ UNCHANGED << ops, expectedLength, received, connVars, outcome >>
       ELSE /\ FlushReturns
            /\ UNCHANGED flushVars
  /\ UNCHANGED << gattVars, txVars, i, sig, bestEffort, consecutiveEmpty,
                  activated, subVars >>
  /\ UNCHANGED callVars

\* callback of a read of the data channel in the drain loop of flushChannels
FlushDataCb ==
  /\ pc = "flushData"
  /\ \E d \in ReadMs, reply \in DataReplies :
       IF reply.kind \in {"err", "empty"}
       THEN /\ FlushReturns
            /\ UNCHANGED flushVars
       ELSE IF drained + Len(reply.bytes) < flushLen /\ elapsed + d < FlushDeadlineMs
            THEN /\ drained' = drained + Len(reply.bytes)
                 /\ elapsed' = elapsed + d
                 /\ pc' = "flushData"
                 /\ UNCHANGED << flushLen, ops, expectedLength, received, connVars,
                                 outcome >>
            ELSE /\ FlushReturns
                 /\ drained' = drained + Len(reply.bytes)
                 /\ flushLen' = flushLen
  /\ UNCHANGED << gattVars, txVars, i, sig, bestEffort, consecutiveEmpty,
                  activated, subVars >>
  /\ UNCHANGED callVars

\* ------------------------------------------------------------ transmission
\* a failed write of the primary attempt that falls through to the retry's chunks
WriteRejectedThenRetry ==
  IF attempt = 1
  THEN /\ pc' = "rtxSettle"
       /\ UNCHANGED << connVars, outcome >>
  ELSE Finally(Thrown("WriteFailed", attempt))

\* the write callback got an error: the promise rejects, the await throws and
\* nothing in sendRpcAndReceive catches it before the finally
WriteRejected == Finally(Thrown("WriteFailed", attempt))

\* a write is requested: characteristic.write(data, withoutResponse, cb)
Write(ch, withoutResponse, data, att) ==
  wire' = Append(wire, [ch |-> ch, withoutResponse |-> withoutResponse,
                        bytes |-> data, att |-> att])

\* callback of characteristic.subscribe; on success the handler is registered,
\* the request is built and its length is written to TX control
SubscribeCb ==
  /\ pc = "subscribe"
  /\ \E err \in BOOLEAN :
       IF err
       THEN /\ Finally(Thrown("SubscribeFailed", 0))
            /\ UNCHANGED << subscribed, ops, txVars >>
       ELSE /\ subscribed' = TRUE
            /\ attempt' = 1
            /\ Write(UUID_TXCTL, FALSE, WriteUInt32BE(Len(RequestBytes)), 1)
            /\ ops' = ops \cup {"write"}
            /\ offset' = offset
            /\ pc' = "txLen"
            /\ UNCHANGED << connVars, outcome >>
  /\ flushLen' = 0
  /\ drained' = 0
  /\ UNCHANGED << gattVars, rxVars, dataVars, unsubscribes >>
  /\ UNCHANGED callVars

\* callback of the length write of the primary attempt; then sleep(1000)
TxLenCb ==
  /\ pc = "txLen"
  /\ \E err \in BOOLEAN :
       IF err
       THEN WriteRejected
       ELSE /\ pc' = "txSettle"
            /\ UNCHANGED << connVars, outcome >>
  /\ UNCHANGED << ops, gattVars, flushVars, txVars, rxVars, dataVars, subVars >>
  /\ UNCHANGED callVars

\* ------------------------------------------------------- decode and return
\* an empty check without the trim
FinishWithoutTrim(rcv) ==
  /\ subscribed' = FALSE
  /\ unsubscribes' = unsubscribes + 1
  /\ LET text == ToStringUtf8(rcv)
         parsed == JsonParse(text)
     IN IF text = <<>>
        THEN Finally(Thrown("EmptyPayload", attempt))
        ELSE IF ~parsed.ok
             THEN Finally(Thrown("InvalidJson", attempt))
             ELSE Finally(Returned(parsed.value))

\* lines 394-416: unsubscribe, toString, the empty check, JSON.parse, finally
Finish(rcv) ==
  /\ subscribed' = FALSE
  /\ unsubscribes' = unsubscribes + 1
  /\ LET text == ToStringUtf8(rcv)
         parsed == JsonParse(text)
     IN IF Trim(text) = <<>>
        THEN Finally(Thrown("EmptyPayload", attempt))
        ELSE IF ~parsed.ok
             THEN Finally(Thrown("InvalidJson", attempt))
             ELSE Finally(Returned(parsed.value))

\* ------------------------------------------------------------ data reading
maxDurationMs(be) == IF be THEN BestEffortMs ELSE KnownLengthMs

\* a loop whose mode follows expectedLength as it is now, not bestEffort as fixed
DataLoopByCurrentLength(e, rcv, el, be) ==
  IF /\ (e # 0 /\ Len(rcv) < e) \/ (e = 0 /\ el < maxDurationMs(TRUE))
     /\ ~(el > maxDurationMs(e = 0))
  THEN /\ pc' = "dataRead"
       /\ UNCHANGED << connVars, subVars, outcome >>
  ELSE Finish(rcv)

\* the test of the while at lines 364-367 and the break at 368-370, with
\* expectedLength = e, received = rcv, Date.now() - startedData = el; either
\* the next read of the data channel is requested or the loop is left
DataLoopFrom(e, rcv, el, be) ==
  IF /\ (~be /\ Len(rcv) < e) \/ (be /\ el < maxDurationMs(be))
     /\ ~(el > maxDurationMs(be))
  THEN /\ pc' = "dataRead"
       /\ UNCHANGED << connVars, subVars, outcome >>
  ELSE Finish(rcv)

\* lines 353-363: bestEffort is fixed here, the clock of the phase starts
DataStartFrom(e, rcv) ==
  /\ bestEffort' = (e = 0)
  /\ activated' = e
  /\ elapsed' = 0
  /\ consecutiveEmpty' = 0
  /\ DataLoopFrom(e, rcv, 0, e = 0)

\* Math.min(200 + consecutiveEmpty * 50, 500)
EmptySleepMs(k) == Min(EmptySleepBaseMs + k * EmptySleepStepMs, EmptySleepCapMs)

\* Callback of a read of the data channel in the receive loop (lines 373-390),
\* up to the next read or to the end of the loop.  The sleep after an empty or
\* failed read is part of the step: only the notification handler can run
\* during it, it touches expectedLength alone, and the callback does not read
\* expectedLength, so a notification during the sleep has the effect of one
\* that came while the read was pending.  The clock of the phase advances by
\* the sleeps alone (reads that call back at once: the case with the most
\* iterations inside a window).
DataReadCb ==
  /\ pc = "dataRead"
  /\ \E reply \in DataReplies :
       IF reply.kind = "err"
       THEN /\ elapsed' = elapsed + ReadErrorSleepMs
            /\ UNCHANGED << received, consecutiveEmpty >>
            /\ DataLoopFrom(expectedLength, received, elapsed + ReadErrorSleepMs,
                            bestEffort)
       ELSE IF reply.kind = "empty"
       THEN LET k == Min(consecutiveEmpty + 1, MaxEmpty)
            IN /\ consecutiveEmpty' = k
               /\ elapsed' = elapsed + EmptySleepMs(k)
               /\ UNCHANGED received
               /\ DataLoopFrom(expectedLength, received, elapsed + EmptySleepMs(k),
                               bestEffort)
       ELSE /\ Len(received) + Len(reply.bytes) <= MaxData
            /\ elapsed' = elapsed
            /\ received' = received \o reply.bytes
            /\ consecutiveEmpty' = 0
            /\ DataLoopFrom(expectedLength, received \o reply.bytes, elapsed,
                            bestEffort)
  /\ UNCHANGED << ops, gattVars, flushVars, txVars, expectedLength, i, sig, bestEffort,
                  activated >>
  /\ UNCHANGED callVars

\* ------------------------------------------------------- length discovery
\* what the peer reported is remembered: the attempt in which its first
\* positive length came (0: none so far), and, for one that came in the
\* primary attempt, whether every report since then repeated that length (as
\* long as they do, expectedLength holds it)
Observe(v) ==
  IF sig.att = 0
  THEN IF v > 0 THEN [att |-> attempt, clean |-> TRUE] ELSE sig
  ELSE IF sig.att = 1 /\ v # expectedLength THEN [sig EXCEPT !.clean = FALSE] ELSE sig

\* the handler given to subscribeNotifications runs (lines 257-260)
Notify ==
  /\ subscribed
  /\ pc # "done"
  /\ \E buf \in NotifyBufs :
       IF buf.kind = "short"
       THEN UNCHANGED << expectedLength, sig >>
       ELSE /\ expectedLength' = buf.len
            /\ sig' = Observe(buf.len)
  /\ UNCHANGED << pc, connVars, ops, gattVars, flushVars, txVars, received, i, dataVars,
                  subVars, outcome >>
  /\ UNCHANGED callVars

\* a retry test that looks at received alone
AfterPollIgnoringLength(e) ==
  IF Len(received) = 0
  THEN /\ expectedLength' = e
       /\ received' = <<>>
       /\ attempt' = 2
       /\ Write(UUID_TXCTL, FALSE, WriteUInt32BE(Len(RequestBytes)), 2)
       /\ pc' = "rtxLen"
       /\ UNCHANGED << dataVars, connVars, subVars, outcome >>
  ELSE /\ expectedLength' = e
       /\ UNCHANGED << received, attempt, wire >>
       /\ DataStartFrom(e, received)

\* no retry at all
AfterPollNoRetry(e) ==
  /\ expectedLength' = e
  /\ UNCHANGED << received, attempt, wire >>
  /\ DataStartFrom(e, received)

\* lines 309-329: the retry test after the primary poll loop, with
\* expectedLength = e; either the retry writes its length or reading starts
AfterPollFrom(e) ==
  IF e = 0 /\ Len(received) = 0
  THEN /\ expectedLength' = 0
       /\ received' = <<>>
       /\ attempt' = 2
       /\ Write(UUID_TXCTL, FALSE, WriteUInt32BE(Len(RequestBytes)), 2)
       /\ pc' = "rtxLen"
       /\ UNCHANGED << dataVars, connVars, subVars, outcome >>
  ELSE /\ expectedLength' = e
       /\ UNCHANGED << received, attempt, wire >>
       /\ DataStartFrom(e, received)

\* a retry poll loop that, on running out with no length, sends the chunks again
RetryPollThenResend(k, e) ==
  /\ expectedLength' = e
  /\ IF k <= RetryPolls /\ e = 0
     THEN /\ i' = k
          /\ pc' = "rpollRead"
          /\ UNCHANGED << dataVars, connVars, subVars, outcome >>
     ELSE IF e = 0
          THEN /\ i' = 0
               /\ pc' = "rtxSettle"
               /\ UNCHANGED << dataVars, connVars, subVars, outcome >>
          ELSE /\ i' = 0
               /\ DataStartFrom(e, received)

\* a retry poll loop with no limit on its count: it polls until a length comes
RetryPollUntilLength(k, e) ==
  /\ expectedLength' = e
  /\ IF e = 0
     THEN /\ i' = (IF k <= RetryPolls THEN k ELSE 1)
          /\ pc' = "rpollRead"
          /\ UNCHANGED << dataVars, connVars, subVars, outcome >>
     ELSE /\ i' = 0
          /\ DataStartFrom(e, received)

\* the retry poll loop from its test (line 340) with i = k, expectedLength = e
RetryPollFrom(k, e) ==
  /\ expectedLength' = e
  /\ IF k <= RetryPolls /\ e = 0
     THEN /\ i' = k
          /\ pc' = "rpollRead"
          /\ UNCHANGED << dataVars, connVars, subVars, outcome >>
     ELSE /\ i' = 0
          /\ DataStartFrom(e, received)

\* the chunk loop of the retry from its test (line 334) with off
RetryChunkLoopFrom(off) ==
  IF off < Len(RequestBytes)
  THEN /\ offset' = off
       /\ Write(UUID_DATA, FALSE, Slice(RequestBytes, off), 2)
       /\ pc' = "rtxChunk"
       /\ UNCHANGED << i, expectedLength, dataVars, connVars, subVars, outcome >>
  ELSE /\ offset' = 0
       /\ wire' = wire
       /\ RetryPollFrom(1, expectedLength)

\* the primary poll loop from its test (line 295) with i = k, expectedLength = e
PollFrom(k, e) ==
  IF k <= PrimaryPolls /\ e = 0
  THEN /\ i' = k
       /\ pc' = "pollRead"
       /\ expectedLength' = e
       /\ UNCHANGED << received, attempt, wire, dataVars, connVars, subVars, outcome >>
  ELSE /\ i' = 0
       /\ AfterPollFrom(e)

\* a chunk loop that requests the write of a chunk twice without waiting
ChunkLoopInParallel(off) ==
  IF off < Len(RequestBytes)
  THEN /\ offset' = off
       /\ wire' = wire \o << [ch |-> UUID_DATA, withoutResponse |-> FALSE,
                               bytes |-> Slice(RequestBytes, off), att |-> 1],
                              [ch |-> UUID_DATA, withoutResponse |-> FALSE,
                               bytes |-> Slice(RequestBytes, off), att |-> 1] >>
       /\ pc' = "txChunk"
       /\ UNCHANGED << i, expectedLength, received, attempt, dataVars, connVars,
                       subVars, outcome >>
  ELSE /\ offset' = 0
       /\ PollFrom(1, expectedLength)

\* the chunk loop of the primary attempt from its test (line 286) with off
ChunkLoopFrom(off) ==
  IF off < Len(RequestBytes)
  THEN /\ offset' = off
       /\ Write(UUID_DATA, FALSE, Slice(RequestBytes, off), 1)
       /\ pc' = "txChunk"
       /\ UNCHANGED << i, expectedLength, received, attempt, dataVars, connVars,
                       subVars, outcome >>
  ELSE /\ offset' = 0
       /\ PollFrom(1, expectedLength)

\* sleep(1000) after the length write is over
TxSettleDone ==
  /\ pc = "txSettle"
  /\ ChunkLoopFrom(0)
  /\ UNCHANGED << ops, gattVars, flushVars, sig >>
  /\ UNCHANGED callVars

\* callback of a chunk write of the primary attempt; then sleep(15)
TxChunkCb ==
  /\ pc = "txChunk"
  /\ \E err \in BOOLEAN :
       IF err
       THEN WriteRejected
       ELSE /\ pc' = "txGap"
            /\ UNCHANGED << connVars, outcome >>
  /\ UNCHANGED << ops, gattVars, flushVars, txVars, rxVars, dataVars, subVars >>
  /\ UNCHANGED callVars

\* sleep(15) is over: offset += MTU_CHUNK
TxGapDone ==
  /\ pc = "txGap"
  /\ ChunkLoopFrom(offset + MTU_CHUNK)
  /\ UNCHANGED << ops, gattVars, flushVars, sig >>
  /\ UNCHANGED callVars

\* callback of a read of RX control in the primary poll loop (lines 297-305);
\* then sleep(250) unless the loop is left by the break
PollReadCb ==
  /\ pc = "pollRead"
  /\ \E reply \in RxReplies :
       IF reply.kind = "len"
       THEN /\ sig' = Observe(reply.len)
            /\ IF reply.len > 0
               THEN /\ i' = 0
                    /\ AfterPollFrom(reply.len)
               ELSE /\ expectedLength' = reply.len
                    /\ pc' = "pollSleep"
                    /\ UNCHANGED << i, received, attempt, wire, dataVars, connVars,
                                    subVars, outcome >>
       ELSE /\ pc' = "pollSleep"
            /\ UNCHANGED << rxVars, attempt, wire, dataVars, connVars, subVars, outcome >>
  /\ UNCHANGED << ops, gattVars, flushVars, offset >>
  /\ UNCHANGED callVars

\* sleep(250) is over: i++
PollSleepDone ==
  /\ pc = "pollSleep"
  /\ PollFrom(i + 1, expectedLength)
  /\ UNCHANGED << ops, gattVars, flushVars, offset, sig >>
  /\ UNCHANGED callVars

\* ------------------------------------------------------------------ retry
\* callback of the length write of the retry; then sleep(500)
RetryLenCb ==
  /\ pc = "rtxLen"
  /\ \E err \in BOOLEAN :
       IF err
       THEN WriteRejected
       ELSE /\ pc' = "rtxSettle"
            /\ UNCHANGED << connVars, outcome >>
  /\ UNCHANGED << ops, gattVars, flushVars, txVars, rxVars, dataVars, subVars >>
  /\ UNCHANGED callVars

\* sleep(500) is over
RetrySettleDone ==
  /\ pc = "rtxSettle"
  /\ RetryChunkLoopFrom(0)
  /\ UNCHANGED << ops, gattVars, flushVars, attempt, received, sig >>
  /\ UNCHANGED callVars

\* callback of a chunk write of the retry; then sleep(25)
RetryChunkCb ==
  /\ pc = "rtxChunk"
  /\ \E err \in BOOLEAN :
       IF err
       THEN WriteRejected
       ELSE /\ pc' = "rtxGap"
            /\ UNCHANGED << connVars, outcome >>
  /\ UNCHANGED << ops, gattVars, flushVars, txVars, rxVars, dataVars, subVars >>
  /\ UNCHANGED callVars

\* sleep(25) is over: off += MTU_CHUNK
RetryGapDone ==
  /\ pc = "rtxGap"
  /\ RetryChunkLoopFrom(offset + MTU_CHUNK)
  /\ UNCHANGED << ops, gattVars, flushVars, attempt, received, sig >>
  /\ UNCHANGED callVars

\* callback of a read of RX control in the retry poll loop (lines 342-347);
\* then sleep(100)
RetryPollReadCb ==
  /\ pc = "rpollRead"
  /\ \E reply \in RxReplies :
       IF reply.kind = "len"
       THEN /\ sig' = Observe(reply.len)
            /\ expectedLength' = reply.len
       ELSE UNCHANGED << sig, expectedLength >>
  /\ pc' = "rpollSleep"
  /\ UNCHANGED << connVars, ops, gattVars, flushVars, txVars, received, i, dataVars, subVars,
                  outcome >>
  /\ UNCHANGED callVars

\* sleep(100) is over: i++
RetryPollSleepDone ==
  /\ pc = "rpollSleep"
  /\ RetryPollFrom(i + 1, expectedLength)
  /\ UNCHANGED << ops, gattVars, flushVars, txVars, received, sig >>
  /\ UNCHANGED callVars

Next ==
  \/ ConnectCb
  \/ SettleDone
  \/ DiscoverServicesCb
  \/ DiscoverCharacteristicsCb
  \/ FlushRxCb
  \/ FlushDataCb
  \/ SubscribeCb
  \/ TxLenCb
  \/ TxSettleDone
  \/ TxChunkCb
  \/ TxGapDone
  \/ PollReadCb
  \/ PollSleepDone
  \/ RetryLenCb
  \/ RetrySettleDone
  \/ RetryChunkCb
  \/ RetryGapDone
  \/ RetryPollReadCb
  \/ RetryPollSleepDone
  \/ DataReadCb
  \/ Notify

Spec == Init /\ [][Next]_vars

\* ------------------------------------------------- the loop of main (511-546)
\* answers to the prompts: nothing, or some text
MethodAnswers == {"", "Shelly.GetStatus"}
\* nothing, a JSON text, a text that is not JSON
ParamAnswers == {"", "{}", "{"}

\* tryParseJson (lines 63-69): null for no text, the parsed value, or the error
\* 'Failed to parse --params as JSON'
tryParseJson(text) ==
  IF text = "" THEN [ok |-> TRUE, value |-> "null"]
  ELSE IF text = "{}" THEN [ok |-> TRUE, value |-> "{}"]
  ELSE [ok |-> FALSE, value |-> "Failed to parse --params as JSON"]

\* no call of sendRpcAndReceive is running: its variables do not exist
NoCall ==
  /\ shellyService' = "pending"
  /\ charMap' = {"pending"}
  /\ ops' = {}
  /\ flushLen' = 0
  /\ drained' = 0
  /\ elapsed' = 0
  /\ subscribed' = FALSE
  /\ unsubscribes' = 0
  /\ expectedLength' = 0
  /\ received' = <<>>
  /\ offset' = 0
  /\ attempt' = 0
  /\ wire' = <<>>
  /\ i' = 0
  /\ bestEffort' = FALSE
  /\ consecutiveEmpty' = 0
  /\ outcome' = NoOutcome
  /\ sig' = NoSig
  /\ activated' = 0

exchangeVars == << shellyService, charMap, ops, flushVars, txVars, rxVars, dataVars, subVars,
                   outcome >>

\* line 527: sendRpcAndReceive is called and runs up to its first await, the
\* request of the connection
Call ==
  /\ exchanges < MaxExchanges
  /\ exchanges' = exchanges + 1
  /\ requestLength' = ReqLen
  /\ pc' = "connect"
  /\ mainPc' = "awaitExchange"
  /\ UNCHANGED << connVars, exchangeVars >>

\* the loop goes on without waiting for the call to settle
AwaitedAtOnce == TRUE

\* the await of line 527 resumes: the promise of the call is settled
Awaited == pc = "done"

\* main starts without a method: the prompts of lines 519 and 522 come first
Prompting ==
  /\ pc = "idle"
  /\ connected = FALSE
  /\ connects = 0
  /\ disconnects = 0
  /\ shellyService = "pending"
  /\ charMap = {"pending"}
  /\ ops = {}
  /\ flushLen = 0
  /\ drained = 0
  /\ elapsed = 0
  /\ subscribed = FALSE
  /\ unsubscribes = 0
  /\ expectedLength = 0
  /\ received = <<>>
  /\ offset = 0
  /\ attempt = 0
  /\ wire = <<>>
  /\ i = 0
  /\ bestEffort = FALSE
  /\ consecutiveEmpty = 0
  /\ outcome = NoOutcome
  /\ sig = NoSig
  /\ activated = 0
  /\ requestLength = ReqLen
  /\ mainPc = "promptMethod"
  /\ exchanges = 0

\* answer to 'Enter RPC method' (lines 519-522): nothing ends the session
\* (requestedExit, break, the finally exits the process)
PromptMethodCb ==
  /\ mainPc = "promptMethod"
  /\ \E m \in MethodAnswers :
       mainPc' = (IF m = "" THEN "exited" ELSE "promptParams")
  /\ UNCHANGED << pc, connVars, exchangeVars, requestLength, exchanges >>

\* answer to 'Enter params JSON' (lines 522-527): a text that does not parse
\* throws out of the loop; otherwise the call is made
PromptParamsCb ==
  /\ mainPc = "promptParams"
  /\ \E p \in ParamAnswers :
       IF ~tryParseJson(p).ok
       THEN /\ mainPc' = "crashed"
            /\ UNCHANGED << pc, connVars, exchangeVars, requestLength, exchanges >>
       ELSE Call

\* the call has returned or thrown (lines 527-535): main prints the response
\* or the error and asks for the next method
ExchangeSettled ==
  /\ mainPc = "awaitExchange"
  /\ Awaited
  /\ NoCall
  /\ pc' = "idle"
  /\ mainPc' = "promptNext"
  /\ UNCHANGED << connVars, requestLength, exchanges >>

\* answer to 'Next RPC method' (lines 535-538)
PromptNextCb ==
  /\ mainPc = "promptNext"
  /\ \E next \in MethodAnswers :
       mainPc' = (IF next = "" THEN "exited" ELSE "promptNextParams")
  /\ UNCHANGED << pc, connVars, exchangeVars, requestLength, exchanges >>

\* answer to 'Params JSON' (lines 538-540, 527)
PromptNextParamsCb ==
  /\ mainPc = "promptNextParams"
  /\ \E nextParams \in ParamAnswers :
       IF ~tryParseJson(nextParams).ok
       THEN /\ mainPc' = "crashed"
            /\ UNCHANGED << pc, connVars, exchangeVars, requestLength, exchanges >>
       ELSE Call

SessionInit == Init \/ Prompting

SessionNext ==
  \/ Next
  \/ PromptMethodCb
  \/ PromptParamsCb
  \/ ExchangeSettled
  \/ PromptNextCb
  \/ PromptNextParamsCb

\* the session: main's loop and the exchanges it runs
SessionSpec == SessionInit /\ [][SessionNext]_vars

\* the same exchange for requests of several lengths
PayloadInit ==
  /\ Called
  /\ requestLength \in ReqLens
  /\ mainPc = "awaitExchange"
  /\ exchanges = 1

PayloadSpec == PayloadInit /\ [][Next]_vars

\* ------------------------------------------- the exchange with its scheduling
\* the steps of sendRpcAndReceive itself: the callback of the BLE operation it
\* awaits, or the end of the sleep it awaits
Resume ==
  \/ ConnectCb
  \/ SettleDone
  \/ DiscoverServicesCb
  \/ DiscoverCharacteristicsCb
  \/ FlushRxCb
  \/ FlushDataCb
  \/ SubscribeCb
  \/ TxLenCb
  \/ TxSettleDone
  \/ TxChunkCb
  \/ TxGapDone
  \/ PollReadCb
  \/ PollSleepDone
  \/ RetryLenCb
  \/ RetrySettleDone
  \/ RetryChunkCb
  \/ RetryGapDone
  \/ RetryPollReadCb
  \/ RetryPollSleepDone
  \/ DataReadCb

\* every BLE operation calls back and every sleep ends: the await the function
\* is suspended at resumes.  Nothing is assumed of the notifications.
TerminationSpec == Init /\ [][Next]_vars /\ WF_vars(Resume)

\* ------------------------------------------------------------- properties
LengthWrites == {k \in 1..Len(wire) : wire[k].ch = UUID_TXCTL}
ChunkWrites(a) == {k \in 1..Len(wire) : wire[k].ch = UUID_DATA /\ wire[k].att = a}
ChunksPerRequest == (Len(RequestBytes) + MTU_CHUNK - 1) \div MTU_CHUNK
jsonText == ToStringUtf8(received)

\* the peer reported a positive length during the primary attempt and every
\* report after it repeated that length
SignalledInPrimary == sig.att = 1 /\ sig.clean
\* the exchange ended for a reason other than its receive and decode
IoFailed ==
  outcome.error \in {"ConnectFailed", "DiscoverFailed", "ServiceNotFound",
                     "CharacteristicsMissing", "SubscribeFailed", "WriteFailed"}

\* C1: in one exchange the request is transmitted at most twice: at most two
\* length writes to TX control, every write belongs to the primary attempt or to
\* the one retry, and neither attempt writes more than one round of chunks.
AtMostTwoTransmissions ==
  /\ attempt \in 0..2
  /\ Cardinality(LengthWrites) <= 2
  /\ Cardinality(LengthWrites) = attempt
  /\ \A k \in 1..Len(wire) : wire[k].att \in 1..attempt
  /\ \A a \in 1..2 : Cardinality(ChunkWrites(a)) <= ChunksPerRequest
\* an exchange that retried, wrote both rounds in full and went on to decode
RetriedExchangeEnded ==
  /\ pc = "done"
  /\ attempt = 2
  /\ Cardinality(LengthWrites) = 2
  /\ Cardinality(ChunkWrites(1)) = ChunksPerRequest
  /\ Cardinality(ChunkWrites(2)) = ChunksPerRequest
  /\ outcome.error \in {"", "EmptyPayload", "InvalidJson"}

\* C2 (as claimed): once expectedLength is positive, no later step of the same
\* exchange (a notification, the callback of a poll read) changes it.
LengthSetOnce == [][expectedLength > 0 => expectedLength' = expectedLength]_vars

EmptyAfterOneRetry ==
  (pc = "done" /\ ~IoFailed /\ sig.att = 0 /\ received = <<>>)
  => /\ outcome = Thrown("EmptyPayload", 2)
     /\ attempt = 2
     /\ Cardinality(LengthWrites) = 2
\* the silent peer: both attempts sent in full, nothing received
SilentPeerExchangeEnded ==
  /\ pc = "done"
  /\ sig.att = 0
  /\ received = <<>>
  /\ outcome.error = "EmptyPayload"
  /\ Cardinality(ChunkWrites(2)) = ChunksPerRequest

DisconnectOnEveryExit ==
  (pc = "done" /\ connects > 0) => (~connected /\ disconnects = connects)
\* an exchange abandoned by a failed chunk write of the retry
AbandonedExchangeDisconnected ==
  /\ pc = "done"
  /\ outcome = Thrown("WriteFailed", 2)
  /\ ~connected
  /\ disconnects = 1

\* C7: when the target service is absent, or one of the three characteristics
\* is, the exchange has ended with the terminal error at once: no read, no
\* subscription, no write was requested and no attempt was started.
MissingGattAbortsAtOnce ==
  (shellyService = "undefined" \/ ("pending" \notin charMap /\ charMap # wanted))
  => /\ pc = "done"
     /\ outcome = Thrown(IF shellyService = "undefined" THEN "ServiceNotFound"
                         ELSE "CharacteristicsMissing", 0)
     /\ ops = {}
     /\ wire = <<>>
     /\ attempt = 0
     /\ ~subscribed
\* only the RX control characteristic is missing
RxControlMissing ==
  /\ charMap = {UUID_DATA, UUID_TXCTL}
  /\ outcome.error = "CharacteristicsMissing"

\* C8 (as claimed): a write error ends the exchange only when the retry is
\* already used; one on the primary attempt triggers the retry instead.
WriteErrorTriggersRetry == outcome.error = "WriteFailed" => outcome.att = 2
\* C8 (amended): a step that leaves a pending write (length or chunk, primary
\* or retry) otherwise than by its success ends the exchange with the write
\* error: the peer is disconnected, nothing more is written and no retry starts.
WriteErrorEndsExchange ==
  [][(/\ pc \in {"txLen", "txChunk", "rtxLen", "rtxChunk"}
      /\ pc' # pc
      /\ pc' # (CASE pc = "txLen" -> "txSettle" [] pc = "txChunk" -> "txGap"
                  [] pc = "rtxLen" -> "rtxSettle" [] OTHER -> "rtxGap"))
     => /\ pc' = "done"
        /\ outcome' = Thrown("WriteFailed", attempt)
        /\ attempt' = attempt
        /\ wire' = wire
        /\ ~connected']_vars
\* the length write of the primary attempt failed and the exchange is over
PrimaryWriteErrorSurfaced ==
  /\ pc = "done"
  /\ outcome = Thrown("WriteFailed", 1)
  /\ attempt = 1
  /\ Len(wire) = 1

\* C9 (as claimed): a retry is made exactly when no positive length was
\* reported in the primary attempt (and no byte was received): an exchange that
\* retried saw no positive length in its primary attempt, and one that reads
\* data without having retried saw one.
RetryExactlyWithoutSignal ==
  /\ attempt = 2 => sig.att # 1
  /\ (pc = "dataRead" /\ attempt = 1) => sig.att = 1

\* C10: in the best-effort receive a read of the data channel is requested
\* only inside the 5-second window; every step of the loop either brings bytes
\* (of which the peer has a bounded supply) or moves the clock on by at least
\* 250 ms; notifications, which may change expectedLength meanwhile, do neither
\* and do not reopen the window.  So the loop ends once the window has elapsed.
BestEffortWindowCloses ==
  /\ [](bestEffort /\ pc = "dataRead" => elapsed < BestEffortMs)
  /\ [](bestEffort => elapsed < BestEffortMs + EmptySleepCapMs /\ Len(received) <= MaxData)
  /\ [][(/\ bestEffort
         /\ pc = "dataRead"
         /\ (pc' # pc \/ elapsed' # elapsed \/ received' # received))
        => \/ elapsed' >= elapsed + ReadErrorSleepMs /\ received' = received
           \/ Len(received') > Len(received)]_vars
\* a best-effort receive that ran to the end of its window although a
\* notification had set expectedLength meanwhile
BestEffortEndedAfterNotification ==
  /\ pc = "done"
  /\ bestEffort
  /\ expectedLength > 0
  /\ elapsed >= BestEffortMs

FlushNeverFails ==
  /\ [](pc = "flushData" => flushLen > 0 /\ drained < flushLen /\ elapsed < FlushDeadlineMs)
  /\ [][(pc \in {"flushRx", "flushData"})
        => /\ pc' \in {"flushData", "subscribe"}
           /\ outcome' = NoOutcome
           /\ connected'
           /\ disconnects' = 0
           /\ (pc = "flushData" /\ pc' = "flushData" => drained' > drained)
           /\ (pc' = "subscribe" => "subscribe" \in ops')]_vars
\* a drain that stopped one byte short of the two reported (an error, an empty
\* read or the deadline), and the exchange went on to subscribe
DrainCutShort ==
  /\ pc = "subscribe"
  /\ flushLen = 2
  /\ drained = 1
  /\ outcome = NoOutcome
  /\ connected

\* the number of bytes of P written to the data channel by attempt a
RECURSIVE Written(_, _, _)
Written(P, a, k) ==
  IF k = 0 THEN 0
  ELSE Written(P, a, k - 1) +
         (IF wire[k].ch = UUID_DATA /\ wire[k].att = a
          THEN Len(SliceBytes(P, wire[k].bytes)) ELSE 0)
\* from the k-th write on, with before bytes written by attempt a so far: each
\* chunk of attempt a has 1 to 20 bytes and holds the bytes of P that follow
\* the ones written before it
RECURSIVE ChunksInOrder(_, _, _, _)
ChunksInOrder(P, a, k, before) ==
  IF k > Len(wire) THEN TRUE
  ELSE IF wire[k].ch = UUID_DATA /\ wire[k].att = a
       THEN LET chunk == SliceBytes(P, wire[k].bytes)
            IN /\ Len(chunk) \in 1..20
               /\ before + Len(chunk) <= Len(P)
               /\ chunk = SubSeq(P, before + 1, before + Len(chunk))
               /\ ChunksInOrder(P, a, k + 1, before + Len(chunk))
       ELSE ChunksInOrder(P, a, k + 1, before)
\* the number that four bytes spell, highest byte first
BigEndianValue(b) == ((b[1] * 256 + b[2]) * 256 + b[3]) * 256 + b[4]
\* attempt a has written its length and all its chunks
TransmitDone(a) ==
  IF a = 1
  THEN \/ attempt = 2
       \/ attempt = 1 /\ pc \in {"pollRead", "pollSleep", "dataRead"}
       \/ attempt = 1 /\ pc = "done" /\ outcome.error # "WriteFailed"
  ELSE /\ attempt = 2
       /\ \/ pc \in {"rpollRead", "rpollSleep", "dataRead"}
          \/ pc = "done" /\ outcome.error # "WriteFailed"

OneExchangeInFlight ==
  /\ [](pc \notin {"idle", "done"} => mainPc = "awaitExchange")
  /\ [](connects - disconnects = (IF connected THEN 1 ELSE 0))
  /\ [](connects <= exchanges)
  /\ [][exchanges' # exchanges
        => /\ exchanges' = exchanges + 1
           /\ pc = "idle"
           /\ pc' = "connect"
           /\ ~connected
           /\ disconnects = connects
           /\ outcome = NoOutcome]_vars
\* the second exchange of a session has ended, after two full cycles of
\* connect and disconnect
SecondExchangeEnded ==
  /\ exchanges = 2
  /\ pc = "done"
  /\ connects = 2
  /\ disconnects = 2
  /\ ~connected

\* C15 (as claimed): every exchange that established the subscription to RX
\* control has called the unsubscribe function when it ends, whatever its
\* outcome.
SubscriptionTornDown ==
  (pc = "done" /\ attempt >= 1) => (~subscribed /\ unsubscribes = 1)

\* the exchange is between the request of its first write and its decode
Exchanging ==
  pc \in {"txLen", "txSettle", "txChunk", "txGap", "pollRead", "pollSleep", "rtxLen",
          "rtxSettle", "rtxChunk", "rtxGap", "rpollRead", "rpollSleep", "dataRead"}
\* C16: the phases are ordered flush, subscribe, transmit.  The subscription is
\* requested by the step that ends the flush and by no other; the first write
\* is the length write to TX control of the primary attempt, requested by the
\* step that registers the handler; and the handler stays registered for as
\* long as the exchange transmits, polls and reads.
FlushSubscribeTransmit ==
  /\ [](wire # <<>> => "subscribe" \in ops /\ (subscribed \/ unsubscribes > 0))
  /\ []("subscribe" \in ops => pc \notin {"connect", "settle", "discoverServices",
                                           "discoverCharacteristics", "flushRx", "flushData"})
  /\ [](Exchanging => subscribed)
  /\ [][("subscribe" \notin ops /\ "subscribe" \in ops')
        => (pc \in {"flushRx", "flushData"} /\ pc' = "subscribe" /\ wire' = <<>>)]_vars
  /\ [][(wire = <<>> /\ wire' # <<>>)
        => /\ pc = "subscribe"
           /\ subscribed'
           /\ Len(wire') = 1
           /\ wire'[1].ch = UUID_TXCTL
           /\ wire'[1].att = 1]_vars
\* the length write of the primary attempt is pending, the handler registered
FirstWritePending ==
  /\ pc = "txLen"
  /\ subscribed
  /\ Len(wire) = 1
  /\ ops = {"read", "subscribe", "write"}

\* a write has been requested and its callback has not run
WritePending == pc \in {"txLen", "txChunk", "rtxLen", "rtxChunk"}
\* C17: a write is requested only when no write is pending, one at a time; a
\* chunk write is requested only after the callback of the length write of its
\* attempt (and the settle sleep) or after the callback of the chunk before it
\* (and the gap sleep); the first chunk of an attempt starts at offset 0 and
\* every other chunk starts where the chunk before it ended.
WritesOneAtATime ==
  /\ [](\A k \in 1..Len(wire) :
          wire[k].ch = UUID_DATA
          => /\ k > 1
             /\ wire[k - 1].att = wire[k].att
             /\ wire[k].bytes[2] > wire[k].bytes[1]
             /\ wire[k].bytes[1] = (IF wire[k - 1].ch = UUID_TXCTL THEN 0
                                    ELSE wire[k - 1].bytes[2]))
  /\ [][wire' # wire
        => /\ ~WritePending
           /\ WritePending'
           /\ Len(wire') = Len(wire) + 1
           /\ SubSeq(wire', 1, Len(wire)) = wire
           /\ (wire'[Len(wire')].ch = UUID_DATA
               => pc \in {"txSettle", "txGap", "rtxSettle", "rtxGap"})]_vars
\* the second chunk of the retry is pending, after five writes that completed
SecondRetryChunkPending ==
  /\ pc = "rtxChunk"
  /\ offset = MTU_CHUNK
  /\ Len(wire) = 6

\* C18 (as claimed): the primary loop reads RX control at most 30 times, and no
\* poll read is requested once a positive length has been reported, by a
\* notification or by a poll.
PollOnlyWithoutLength ==
  /\ [](pc \in {"pollRead", "pollSleep"} => i \in 1..PrimaryPolls)
  /\ [][(pc # "pollRead" /\ pc' = "pollRead") => sig.att = 0]_vars

\* C19 (as claimed): a known-length receive has ended only with at least as
\* many bytes as the length that activated it, or after 20 seconds.
KnownLengthRunsToLength ==
  (pc = "done" /\ activated > 0)
  => (Len(received) >= activated \/ elapsed >= KnownLengthMs)

\* C20 (as claimed): every data chunk of the primary attempt is written with
\* an acknowledged write and every data chunk of the retry with a write
\* without response.
WriteModePerAttempt ==
  \A k \in 1..Len(wire) :
    wire[k].ch = UUID_DATA => (wire[k].withoutResponse <=> wire[k].att = 2)

\* C21 (as claimed): the length discovery of the retry has the budget of the
\* primary attempt: it is given up with no length, and the best-effort read
\* started, only after as many polls of RX control as the primary loop makes.
RetryPollsAsPrimary ==
  [][(pc = "rpollSleep" /\ pc' = "dataRead" /\ expectedLength' = 0)
      => i = PrimaryPolls]_vars

\* C22 (as claimed): an answer to a params prompt that is not JSON costs that
\* request alone: no call is made for it, and main goes on to prompt for the
\* next method; the run does not end.
ParamsErrorKeepsSession ==
  [][(mainPc \in {"promptParams", "promptNextParams"} /\ mainPc' # "awaitExchange")
      => (exchanges' = exchanges /\ pc' = pc /\ mainPc' \in {"promptMethod", "promptNext"})]_vars

\* C23: when every BLE operation calls back and every sleep ends, the exchange
\* ends, by a returned value or by an error: none of its loops (flush drain,
\* primary polling, retry polling, known-length read, best-effort read) runs
\* for ever, whatever the reads deliver and whatever notifications come.
ExchangeEnds ==
  <>(pc = "done" /\ outcome.kind \in {"return", "throw"} /\ ~connected)
\* a known-length read that got fewer bytes than announced and was ended by
\* its 20-second limit
KnownLengthTimedOut ==
  /\ pc = "done"
  /\ ~bestEffort
  /\ activated > 0
  /\ Len(received) < expectedLength
  /\ elapsed > KnownLengthMs
====
